---- MODULE Spec2Model ----
(***************************************************************************)
(* A model of tractseg/models/Old_1/UNet_Multilabel_diceLoss.py:           *)
(*   get_UNet        the ordered layer mapping of the U-Net, built one     *)
(*                   statement at a time, with the output shape Lasagne    *)
(*                   infers for every layer;                               *)
(*   create_network  the selection of the input geometry, the reset of    *)
(*                   Lasagne's random source, the optional weight load,    *)
(*                   the symbolic Theano graph and the compiled callables. *)
(* A tensor shape is a tuple of integers; an unknown dimension (Python's   *)
(* None) is 0.  A weight tensor is one integer, the value the random       *)
(* source held when the layer drew it.                                     *)
(***************************************************************************)
EXTENDS Integers, Sequences, FiniteSets, TLC

\* ------------------------------------------------------------------ bounds
MaxClasses == 2
MaxFilt == 2
MaxBatch == 2
MaxDimUnits == 4
RngMod == 8
MaxTrainSteps == 2
MaxTDim == 2
MaxReproSteps == 1
MaxInputs == 2

\* ------------------------------------------------- constants of the program
None == 0
Dim125 == 144
Dim2 == 80
GradientsSingle == 9
GradientsDefault == 33
Seed == 1
DefaultChannels == 1
DefaultFilters == 128
DefaultClasses == 2
DefaultDim == 128
DropoutPercent == 40

\* ------------------------------------------------------------ small helpers
RECURSIVE Prod(_)
Prod(s) == IF s = <<>> THEN 1 ELSE Head(s) * Prod(Tail(s))

Min2(a, b) == IF a <= b THEN a ELSE b

HasNone(s) == \E i \in DOMAIN s : s[i] = None

IndexOf(s, v) == CHOOSE i \in DOMAIN s : s[i] = v

\* ------------------------------------------- Lasagne's output-shape inference
\* Conv2DLayer, stride 1: pad='same' keeps the length, the default pad=0 gives
\* length - filter_size + 1.
\* A mutant of ConvLen: pad='same' is ignored.
ConvLenValid(n, filter_size, pad) == n - filter_size + 1

ConvLen(n, filter_size, pad) == IF pad = "same" THEN n ELSE n - filter_size + 1

ConvShape(in, num_filters, filter_size, pad) ==
    << in[1], num_filters, ConvLen(in[3], filter_size, pad), ConvLen(in[4], filter_size, pad) >>

\* Pool2DLayer(incoming, 2): stride = pool_size, pad = 0, ignore_border=True.
PoolLen(n, pool_size) == ((n - pool_size + 1) + pool_size - 1) \div pool_size

PoolShape(in, pool_size) == << in[1], in[2], PoolLen(in[3], pool_size), PoolLen(in[4], pool_size) >>

\* Upscale2DLayer(incoming, 2).
\* A mutant of UpscaleShape: only the height is scaled.
UpscaleShapeHeightOnly(in, scale_factor) == << in[1], in[2], in[3] * scale_factor, in[4] >>

UpscaleShape(in, scale_factor) == << in[1], in[2], in[3] * scale_factor, in[4] * scale_factor >>

\* ConcatLayer([a, b], cropping=(None, None, "center", "center")), axis=1: the
\* cropped axes take the smaller length, the channels add up, the batch axis
\* must agree (None agrees with anything).
CropLen(x, y) == IF x = None \/ y = None THEN None ELSE Min2(x, y)

ConcatBatch(x, y) == IF x # None THEN x ELSE y

ConcatMismatch(a, b) == a[1] # None /\ b[1] # None /\ a[1] # b[1]

ConcatShape(a, b) ==
    << ConcatBatch(a[1], b[1]),
       IF a[2] = None \/ b[2] = None THEN None ELSE a[2] + b[2],
       CropLen(a[3], b[3]), CropLen(a[4], b[4]) >>

\* DimshuffleLayer(incoming, pattern): axis i of the result is axis
\* pattern[i] of the input (the pattern is 0-based, as in the source).
DimshuffleShape(in, pattern) == [i \in DOMAIN pattern |-> in[pattern[i] + 1]]

\* ReshapeLayer(incoming, shape) with one -1 in shape: the inferred dimension
\* is input_size // product of the others, or None when the input holds a None.
ReshapeShape(in, shape) ==
    LET others == Prod(shape) * (-1)
    IN  [i \in DOMAIN shape |->
            IF shape[i] # -1 THEN shape[i]
            ELSE IF HasNone(in) THEN None
            ELSE Prod(in) \div others]

ReshapeMismatch(in, shape) ==
    /\ ~HasNone(in)
    /\ Prod(ReshapeShape(in, shape)) # Prod(in)

\* ------------------------------------------------------------------ get_UNet
\* The arguments of get_UNet and their defaults.
DefaultArgs ==
    [ n_input_channels |-> DefaultChannels, BATCH_SIZE |-> None,
      num_output_classes |-> DefaultClasses, pad |-> "same", nonlinearity |-> "rectify",
      input_dim |-> << DefaultDim, DefaultDim >>, base_n_filters |-> DefaultFilters,
      do_dropout |-> FALSE ]

\* One statement of get_UNet: the key of net it stores under ("" for none),
\* whether it assigns the local l, the layer it builds, the names it reads
\* (keys of net, or "l" for the local), and the layer's arguments.
Stmt(line, target, setl, kind, reads, spec, nonlinearity, pad) ==
    [ line |-> line, target |-> target, setl |-> setl, kind |-> kind, reads |-> reads,
      spec |-> spec, nonlinearity |-> nonlinearity, pad |-> pad ]

Conv(line, target, from, a, mult) ==
    Stmt(line, target, FALSE, "conv", << from >>, << a.base_n_filters * mult, 3 >>, a.nonlinearity, a.pad)

Pool(line, target, setl, from) == Stmt(line, target, setl, "pool", << from >>, << 2 >>, "", "")

\* A mutant of Upscale: every upscaling is stored under the one key "deconv".
UpscaleSameKey(line, target, from) == Stmt(line, "deconv", FALSE, "upscale", << from >>, << 2 >>, "", "")

Upscale(line, target, from) == Stmt(line, target, FALSE, "upscale", << from >>, << 2 >>, "", "")

Concat(line, target, up, skip) == Stmt(line, target, FALSE, "concat", << up, skip >>, << >>, "", "")

\* A mutant of DropoutStmts: the commented-out "if do_dropout:" is honoured.
DropoutStmtsGated(a) ==
    IF a.do_dropout THEN << Stmt(50, "", TRUE, "dropout", << "l" >>, << DropoutPercent >>, "", "") >> ELSE << >>

\* Line 50: the "if do_dropout:" above it is a comment, so the statement runs
\* for every value of the argument.
DropoutStmts(a) == << Stmt(50, "", TRUE, "dropout", << "l" >>, << DropoutPercent >>, "", "") >>

Contracting(a) ==
    << Stmt(31, "input", FALSE, "input", << >>,
            << a.BATCH_SIZE, a.n_input_channels, a.input_dim[1], a.input_dim[2] >>, "", ""),
       Conv(33, "contr_1_1", "input", a, 1),
       Conv(34, "contr_1_2", "contr_1_1", a, 1),
       Pool(35, "pool1", FALSE, "contr_1_2"),
       Conv(37, "contr_2_1", "pool1", a, 2),
       Conv(38, "contr_2_2", "contr_2_1", a, 2),
       Pool(39, "pool2", FALSE, "contr_2_2"),
       Conv(41, "contr_3_1", "pool2", a, 4),
       Conv(42, "contr_3_2", "contr_3_1", a, 4),
       Pool(43, "pool3", FALSE, "contr_3_2"),
       Conv(45, "contr_4_1", "pool3", a, 8),
       Conv(46, "contr_4_2", "contr_4_1", a, 8),
       Pool(47, "pool4", TRUE, "contr_4_2") >>

Expanding(a) ==
    << Conv(52, "encode_1", "l", a, 16),
       Conv(53, "encode_2", "encode_1", a, 16),
       Upscale(54, "deconv1", "encode_2"),
       Concat(56, "concat1", "deconv1", "contr_4_2"),
       Conv(57, "expand_1_1", "concat1", a, 8),
       Conv(58, "expand_1_2", "expand_1_1", a, 8),
       Upscale(59, "deconv2", "expand_1_2"),
       Concat(61, "concat2", "deconv2", "contr_3_2"),
       Conv(62, "expand_2_1", "concat2", a, 4),
       Conv(63, "expand_2_2", "expand_2_1", a, 4),
       Upscale(64, "deconv3", "expand_2_2"),
       Concat(66, "concat3", "deconv3", "contr_2_2"),
       Conv(67, "expand_3_1", "concat3", a, 2),
       Conv(68, "expand_3_2", "expand_3_1", a, 2),
       Upscale(69, "deconv4", "expand_3_2"),
       Concat(71, "concat4", "deconv4", "contr_1_2"),
       Conv(72, "expand_4_1", "concat4", a, 1),
       Conv(73, "expand_4_2", "expand_4_1", a, 1) >>

OutputHead(a) ==
    << Stmt(75, "conv_5", FALSE, "conv", << "expand_4_2" >>, << a.num_output_classes, 1 >>, "None", "valid"),
       Stmt(76, "dimshuffle", FALSE, "dimshuffle", << "conv_5" >>, << 1, 0, 2, 3 >>, "", ""),
       Stmt(77, "reshapeSeg", FALSE, "reshape", << "dimshuffle" >>, << a.num_output_classes, -1 >>, "", ""),
       Stmt(78, "dimshuffle2", FALSE, "dimshuffle", << "reshapeSeg" >>, << 1, 0 >>, "", ""),
       Stmt(81, "output_flat", FALSE, "nonlinearity", << "dimshuffle2" >>, << >>, "sigmoid", ""),
       Stmt(82, "", FALSE, "shape_of", << "conv_5" >>, << >>, "", ""),
       Stmt(83, "output", FALSE, "reshape_img", << "output_flat" >>, << >>, "", "") >>

UNetStmts(a) == Contracting(a) \o DropoutStmts(a) \o Expanding(a) \o OutputHead(a)

\* The activation of get_UNet: the layers built so far (a layer is known by
\* its position in layers), the OrderedDict net (its keys in insertion order
\* and the layer each names), the number of stores into net, the locals l and
\* img_shape, and the exception that ended the call ("" for none).
NewUNet ==
    [ layers |-> << >>, order |-> << >>, net |-> << >>, stores |-> 0,
      l |-> 0, img_shape |-> << >>, exc |-> "" ]

Keys(gu) == { gu.order[i] : i \in DOMAIN gu.order }

Bound(gu, name) == IF name = "l" THEN gu.l # 0 ELSE name \in Keys(gu)

Lookup(gu, name) == IF name = "l" THEN gu.l ELSE gu.net[IndexOf(gu.order, name)]

ShapeOf(gu, name) == gu.layers[Lookup(gu, name)].output_shape

\* The shape argument of a ReshapeLayer; line 83 takes it from img_shape.
ReshapeArg(gu, st) ==
    IF st.kind = "reshape_img"
    THEN << -1, gu.img_shape[3], gu.img_shape[4], gu.img_shape[2] >>
    ELSE st.spec

OutputShape(gu, st) ==
    CASE st.kind = "input" -> st.spec
      [] st.kind = "conv" -> ConvShape(ShapeOf(gu, st.reads[1]), st.spec[1], st.spec[2], st.pad)
      [] st.kind = "pool" -> PoolShape(ShapeOf(gu, st.reads[1]), st.spec[1])
      [] st.kind = "upscale" -> UpscaleShape(ShapeOf(gu, st.reads[1]), st.spec[1])
      [] st.kind = "concat" -> ConcatShape(ShapeOf(gu, st.reads[1]), ShapeOf(gu, st.reads[2]))
      [] st.kind = "dimshuffle" -> DimshuffleShape(ShapeOf(gu, st.reads[1]), st.spec)
      [] st.kind \in {"reshape", "reshape_img"} -> ReshapeShape(ShapeOf(gu, st.reads[1]), ReshapeArg(gu, st))
      [] OTHER -> ShapeOf(gu, st.reads[1])

\* What the layer's constructor raises, "" when it raises nothing.
ConstructorError(gu, st) ==
    CASE st.kind = "concat" /\ ConcatMismatch(ShapeOf(gu, st.reads[1]), ShapeOf(gu, st.reads[2])) -> "ValueError"
      [] st.kind \in {"reshape", "reshape_img"}
           /\ ReshapeMismatch(ShapeOf(gu, st.reads[1]), ReshapeArg(gu, st)) -> "ValueError"
      [] OTHER -> ""

\* A Conv2DLayer draws W from Lasagne's random source (GlorotUniform) and sets
\* b to 0; a DropoutLayer draws the seed of its mask stream from it.
DrawsRandom(kind) == kind \in {"conv", "dropout"}

RngNext(r) == (5 * r + 3) % RngMod

NewLayer(gu, st, r) ==
    [ kind |-> st.kind,
      incoming |-> [i \in DOMAIN st.reads |-> Lookup(gu, st.reads[i])],
      output_shape |-> OutputShape(gu, st),
      spec |-> IF st.kind = "reshape_img" THEN ReshapeArg(gu, st) ELSE st.spec,
      nonlinearity |-> st.nonlinearity,
      pad |-> st.pad,
      params |-> IF st.kind = "conv" THEN << r, 0 >> ELSE << >>,
      srng |-> IF st.kind = "dropout" THEN r ELSE 0 ]

\* net[target] = layer: a new key goes to the end of the OrderedDict, a known
\* key keeps its place and names the new layer.
Store(gu, target, id) ==
    IF target \in Keys(gu)
    THEN [gu EXCEPT !.net[IndexOf(gu.order, target)] = id, !.stores = @ + 1]
    ELSE [gu EXCEPT !.order = Append(@, target), !.net = Append(@, id), !.stores = @ + 1]

\* One statement of get_UNet, run on the activation gu with the random source
\* in state r: the new activation and the new state of the random source.
ExecStmt(gu, r, st) ==
    IF \E i \in DOMAIN st.reads : ~Bound(gu, st.reads[i])
    THEN [ gu |-> [gu EXCEPT !.exc = "KeyError"], rng |-> r ]
    ELSE IF st.kind = "shape_of"
    THEN [ gu |-> [gu EXCEPT !.img_shape = ShapeOf(gu, st.reads[1])], rng |-> r ]
    ELSE IF ConstructorError(gu, st) # ""
    THEN [ gu |-> [gu EXCEPT !.exc = ConstructorError(gu, st)], rng |-> r ]
    ELSE LET id == Len(gu.layers) + 1
             g1 == [gu EXCEPT !.layers = Append(@, NewLayer(gu, st, r))]
             g2 == IF st.target # "" THEN Store(g1, st.target, id) ELSE g1
             g3 == IF st.setl THEN [g2 EXCEPT !.l = id] ELSE g2
         IN  [ gu |-> g3, rng |-> IF DrawsRandom(st.kind) THEN RngNext(r) ELSE r ]

\* The statements from the k-th on, until one raises.
RECURSIVE RunStmts(_, _, _, _)
RunStmts(gu, r, stmts, k) ==
    IF k > Len(stmts) \/ gu.exc # "" THEN [ gu |-> gu, rng |-> r ]
    ELSE LET n == ExecStmt(gu, r, stmts[k]) IN RunStmts(n.gu, n.rng, stmts, k + 1)

\* The whole call: what get_UNet(a) returns with the random source in state r.
get_UNet(a, r) == RunStmts(NewUNet, r, UNetStmts(a), 1)

\* -------------------------------------------------- Lasagne's parameter lists
\* get_all_layers(layer): the layers layer depends on, itself included, in
\* topological order.  Every layer of get_UNet is built after its inputs and
\* the first input of each ConcatLayer reaches the second, so the order of
\* Lasagne's depth-first walk is the order of construction.
RECURSIVE Ancestors(_, _)
Ancestors(layers, id) ==
    {id} \cup UNION { Ancestors(layers, layers[id].incoming[i]) : i \in DOMAIN layers[id].incoming }

RECURSIVE SlotsFrom(_, _, _)
SlotsFrom(layers, ids, k) ==
    IF k > Len(layers) THEN << >>
    ELSE (IF k \in ids THEN [j \in DOMAIN layers[k].params |-> << k, j >>] ELSE << >>)
         \o SlotsFrom(layers, ids, k + 1)

\* get_all_params(layer): the parameters (layer, slot) of those layers, W
\* before b; every one of them is trainable.
get_all_params(layers, id) == SlotsFrom(layers, Ancestors(layers, id), 1)

get_all_param_values(layers, id) ==
    LET ps == get_all_params(layers, id)
    IN  [k \in DOMAIN ps |-> layers[ps[k][1]].params[ps[k][2]]]

\* A weight archive as np.load reads it: n arrays arr_0 .. arr_(n-1); bad is
\* the position (from 1) of the first array whose shape is not the shape of
\* the parameter at that position, 0 when there is none.  The k-th array holds
\* the value -k, which no freshly initialised parameter has.
ArchiveValue(k) == 0 - k

Archives(n) == { [n |-> m, bad |-> b] : m \in {n - 1, n, n + 1}, b \in {0, 1, 3} }

NoArchive == [n |-> 0, bad |-> 0]

\* A mutant of CountMismatch: the count is not tested.
CountMismatchIgnored(n_params, n_values) == FALSE

\* The count test of set_all_param_values: a ValueError before any value is set.
CountMismatch(n_params, n_values) == n_params # n_values

\* L.layers.set_all_param_values(layer, values): the count test, then
\* the parameters in order, each set unless its shape differs, which raises
\* with the earlier ones already set.
set_all_param_values(layers, id, f) ==
    LET ps == get_all_params(layers, id)
        written == IF f.bad = 0 THEN Len(ps) ELSE f.bad - 1
        slotOf(k, j) == { i \in DOMAIN ps : ps[i] = << k, j >> }
    IN  IF CountMismatch(Len(ps), f.n)
        THEN [ layers |-> layers, exc |-> "ValueError" ]
        ELSE [ layers |->
                 [k \in DOMAIN layers |->
                    [layers[k] EXCEPT !.params =
                        [j \in DOMAIN @ |->
                            IF \E i \in slotOf(k, j) : i <= written
                            THEN ArchiveValue(CHOOSE i \in slotOf(k, j) : TRUE)
                            ELSE @[j]]]],
               exc |-> IF f.bad = 0 THEN "" ELSE "ValueError" ]

\* ------------------------------------------------------------ create_network
\* Lines 91-98.
NrOfGradients(HP) ==
    IF HP.SEG_INPUT = "Peaks" /\ HP.TYPE = "single_direction" THEN GradientsSingle
    ELSE IF HP.SEG_INPUT = "Peaks" /\ HP.TYPE = "combined" THEN 3 * HP.NR_OF_CLASSES
    ELSE GradientsDefault

\* Lines 100-103: there is no else branch, so any other tag leaves the local
\* input_dim unbound, here the empty tuple.
Unbound == << >>

\* A mutant of InputDim: an else branch falls back to 80 x 80.
InputDimDefault(HP) ==
    IF HP.RESOLUTION = "1.25mm" THEN << Dim125, Dim125 >> ELSE << Dim2, Dim2 >>

InputDim(HP) ==
    IF HP.RESOLUTION = "1.25mm" THEN << Dim125, Dim125 >>
    ELSE IF HP.RESOLUTION = "2mm" \/ HP.RESOLUTION = "2.5mm" THEN << Dim2, Dim2 >>
    ELSE Unbound

\* A mutant of set_rng: the random source is left as it is.
set_rng_keep(r) == r

\* Line 109: L.random.set_rng(np.random.RandomState(1)).
set_rng(r) == Seed

\* Line 111: the arguments create_network passes; the others keep their defaults.
CallArgs(HP, NR_OF_GRADIENTS, input_dim) ==
    [ DefaultArgs EXCEPT !.n_input_channels = NR_OF_GRADIENTS,
                         !.num_output_classes = HP.NR_OF_CLASSES,
                         !.input_dim = input_dim,
                         !.base_n_filters = HP.UNET_NR_FILT ]

\* Lines 160-165.
Exported == {"learning_rate", "train", "predict", "get_probs", "net", "output"}

Tags == {"1.25mm", "2mm", "2.5mm", "1mm"}

Supported(tag) == tag \in {"1.25mm", "2mm", "2.5mm"}

InputModes == { << "Peaks", "single_direction" >>, << "Peaks", "combined" >>,
                << "Peaks", "other" >>, << "other", "single_direction" >> }

HPs ==
    { [ SEG_INPUT |-> m[1], TYPE |-> m[2], RESOLUTION |-> t, NR_OF_CLASSES |-> c,
        UNET_NR_FILT |-> f, USE_DROPOUT |-> d, LOAD_WEIGHTS |-> w, LEARNING_RATE |-> 1 ] :
      m \in InputModes, t \in Tags, c \in 1..MaxClasses, f \in 1..MaxFilt,
      d \in BOOLEAN, w \in BOOLEAN }

NoHP == CHOOSE h \in HPs : TRUE

Dims == { 8 * k : k \in 2..MaxDimUnits }

DirectArgs ==
    { [ DefaultArgs EXCEPT !.BATCH_SIZE = b, !.num_output_classes = c, !.input_dim = << h, w >>,
                           !.base_n_filters = f, !.do_dropout = d ] :
      b \in 0..MaxBatch, c \in 1..MaxClasses, h \in Dims, w \in Dims, f \in 1..MaxFilt, d \in BOOLEAN }

VARIABLES
    proc,   \* the running call: its entry point, configuration, locals and position
    gu,     \* the activation of get_UNet
    rng,    \* the state of Lasagne's process-wide random source
    self,   \* the attributes create_network has assigned on the model instance
    model,  \* a built model: its parameters, optimizer state, learning rate
    last,   \* the last call of a compiled callable and what it returned
    inst,   \* the model instances of one process
    head    \* the tensors of the output head

vars == << proc, gu, rng, self, model, last, inst, head >>

NoSelf == [ assigned |-> {}, learning_rate |-> 0, output |-> 0 ]

\* The parts of the state a specification does not use.
IdleRun == model = << >> /\ last = << >> /\ inst = << >> /\ head = << >>

InitBuild ==
    /\ rng \in {0, RngMod - 1}
    /\ \/ \E h \in HPs :
            proc = [ entry |-> "create_network", pc |-> "select_gradients", HP |-> h,
                     NR_OF_GRADIENTS |-> 0, input_dim |-> Unbound, args |-> DefaultArgs,
                     k |-> 0, rng0 |-> 0, archive |-> NoArchive, exc |-> "" ]
       \/ \E a \in DirectArgs :
            proc = [ entry |-> "get_UNet", pc |-> "get_UNet", HP |-> NoHP,
                     NR_OF_GRADIENTS |-> 0, input_dim |-> Unbound, args |-> a,
                     k |-> 1, rng0 |-> rng, archive |-> NoArchive, exc |-> "" ]
    /\ gu = NewUNet
    /\ self = NoSelf
    /\ IdleRun

\* Lines 91-98.
SelectGradients ==
    /\ proc.pc = "select_gradients"
    /\ proc' = [proc EXCEPT !.NR_OF_GRADIENTS = NrOfGradients(proc.HP), !.pc = "select_input_dim"]
    /\ UNCHANGED << gu, rng, self, model, last, inst, head >>

\* Lines 100-103.
SelectInputDim ==
    /\ proc.pc = "select_input_dim"
    /\ proc' = [proc EXCEPT !.input_dim = InputDim(proc.HP), !.pc = "set_rng"]
    /\ UNCHANGED << gu, rng, self, model, last, inst, head >>

\* Lines 106-109.
SetRng ==
    /\ proc.pc = "set_rng"
    /\ rng' = set_rng(rng)
    /\ proc' = [proc EXCEPT !.pc = "call_get_UNet"]
    /\ UNCHANGED << gu, self, model, last, inst, head >>

\* Line 111, the call: reading the unbound local raises UnboundLocalError
\* before get_UNet is entered.
CallGetUNet ==
    /\ proc.pc = "call_get_UNet"
    /\ proc' = IF proc.input_dim = Unbound
               THEN [proc EXCEPT !.pc = "raised", !.exc = "UnboundLocalError"]
               ELSE [proc EXCEPT !.pc = "get_UNet", !.k = 1, !.rng0 = rng,
                                 !.args = CallArgs(proc.HP, proc.NR_OF_GRADIENTS, proc.input_dim)]
    /\ UNCHANGED << gu, rng, self, model, last, inst, head >>

\* Lines 30-83: the next statement of get_UNet.
BuildStmt ==
    /\ proc.pc = "get_UNet"
    /\ proc.k <= Len(UNetStmts(proc.args))
    /\ LET n == ExecStmt(gu, rng, UNetStmts(proc.args)[proc.k])
       IN  /\ gu' = n.gu
           /\ rng' = n.rng
           /\ proc' = IF n.gu.exc # ""
                      THEN [proc EXCEPT !.pc = "raised", !.exc = n.gu.exc]
                      ELSE [proc EXCEPT !.k = @ + 1]
    /\ UNCHANGED << self, model, last, inst, head >>

\* Line 86, and for create_network the assignments of lines 111 and 113.
Return ==
    /\ proc.pc = "get_UNet"
    /\ proc.k > Len(UNetStmts(proc.args))
    /\ proc' = [proc EXCEPT !.pc = IF proc.entry = "get_UNet" THEN "returned" ELSE "load_weights"]
    /\ UNCHANGED << gu, rng, self, model, last, inst, head >>

\* Lines 115-119: the archive is read when the configuration asks for it.
LoadWeights ==
    /\ proc.pc = "load_weights"
    /\ LET out == Lookup(gu, "output_flat")
       IN  IF proc.HP.LOAD_WEIGHTS
           THEN \E f \in Archives(Len(get_all_params(gu.layers, out))) :
                   LET r == set_all_param_values(gu.layers, out, f)
                   IN  /\ gu' = [gu EXCEPT !.layers = r.layers]
                       /\ proc' = IF r.exc # ""
                                  THEN [proc EXCEPT !.archive = f, !.pc = "raised", !.exc = r.exc]
                                  ELSE [proc EXCEPT !.archive = f, !.pc = "compile"]
           ELSE /\ gu' = gu
                /\ proc' = [proc EXCEPT !.pc = "compile"]
    /\ UNCHANGED << rng, self, model, last, inst, head >>

\* Lines 122-157: the symbolic graph and the three compiled callables.
Compile ==
    /\ proc.pc = "compile"
    /\ proc' = [proc EXCEPT !.pc = "export"]
    /\ UNCHANGED << gu, rng, self, model, last, inst, head >>

\* Lines 160-165.
Export ==
    /\ proc.pc = "export"
    /\ self' = [ assigned |-> Exported, learning_rate |-> proc.HP.LEARNING_RATE,
                 output |-> Lookup(gu, "output_flat") ]
    /\ proc' = [proc EXCEPT !.pc = "done"]
    /\ UNCHANGED << gu, rng, model, last, inst, head >>

NextBuild ==
    \/ SelectGradients
    \/ SelectInputDim
    \/ SetRng
    \/ CallGetUNet
    \/ BuildStmt
    \/ Return
    \/ LoadWeights
    \/ Compile
    \/ Export

SpecBuild == InitBuild /\ [][NextBuild]_vars

\* ----------------------------------------------------- claims on the build
InCreate == proc.entry = "create_network"

\* get_UNet has returned its mapping.
Built == proc.pc \in {"returned", "load_weights", "compile", "export", "done"}

Pow2(n) == Prod([i \in 1..n |-> 2])

\* C1: once get_UNet has returned, net['output'] has the shape
\* (batch, H, W, num_classes): for create_network the batch is unknown (None)
\* and H = W = 144 for "1.25mm", 80 for "2mm" and "2.5mm"; for every other
\* call whose height and width are multiples of 16 the batch is BATCH_SIZE and
\* H, W are the input's.
C1_OutputShape ==
    Built =>
        /\ InCreate =>
             LET d == IF proc.HP.RESOLUTION = "1.25mm" THEN 144 ELSE 80
             IN  /\ Supported(proc.HP.RESOLUTION)
                 /\ ShapeOf(gu, "output") = << None, d, d, proc.HP.NR_OF_CLASSES >>
        /\ (proc.args.input_dim[1] % 16 = 0 /\ proc.args.input_dim[2] % 16 = 0) =>
             ShapeOf(gu, "output") = << proc.args.BATCH_SIZE, proc.args.input_dim[1],
                                        proc.args.input_dim[2], proc.args.num_output_classes >>

C1_Witness ==
    /\ InCreate /\ proc.pc = "done" /\ proc.HP.RESOLUTION = "1.25mm"
    /\ proc.HP.NR_OF_CLASSES = MaxClasses
    /\ ShapeOf(gu, "output") = << None, 144, 144, MaxClasses >>

ParamValues == get_all_param_values(gu.layers, Lookup(gu, "output_flat"))

ArchiveRead == proc.archive # NoArchive

\* C3: once create_network has read an archive whose number of arrays is not
\* the number of parameters below output_flat, it has raised, every parameter
\* still holds its initial value (no archive value) and no attribute of the
\* instance is assigned.
C3_CountMismatchRaises ==
    (InCreate /\ proc.HP.LOAD_WEIGHTS /\ ArchiveRead /\ proc.archive.n # Len(ParamValues)) =>
        /\ proc.pc = "raised" /\ proc.exc = "ValueError"
        /\ \A i \in DOMAIN ParamValues : ParamValues[i] >= 0
        /\ self.assigned = {}

C3_Witness ==
    /\ InCreate /\ proc.HP.LOAD_WEIGHTS /\ ArchiveRead
    /\ proc.archive.n = Len(ParamValues) + 1 /\ proc.archive.bad = 0
    /\ proc.pc = "raised"

\* C5: in every mapping get_UNet returns, encode_1 reads a DropoutLayer of
\* rate 0.4 that reads pool4; the returned mapping and layers are those of the
\* call with do_dropout negated; and create_network calls with do_dropout
\* False whatever the configuration's toggle.
C5_DropoutUnconditional ==
    (Built /\ proc.pc \in {"returned", "load_weights"}) =>
        LET e == gu.layers[Lookup(gu, "encode_1")]
            d == gu.layers[e.incoming[1]]
        IN  /\ d.kind = "dropout" /\ d.spec = << 40 >>
            /\ d.incoming = << Lookup(gu, "pool4") >>
            /\ InCreate => proc.args.do_dropout = FALSE
            /\ gu = get_UNet([proc.args EXCEPT !.do_dropout = ~@], proc.rng0).gu

C5_Witness ==
    /\ InCreate /\ proc.pc = "load_weights" /\ proc.HP.USE_DROPOUT = FALSE
    /\ gu.layers[gu.layers[Lookup(gu, "encode_1")].incoming[1]].kind = "dropout"

\* C6: every name the next statement of get_UNet reads is bound, every store
\* into net so far was under a new key, and no statement has raised KeyError.
C6_NamesInsertedBeforeUse ==
    /\ gu.stores = Len(gu.order)
    /\ gu.exc # "KeyError"
    /\ (proc.pc = "get_UNet" /\ proc.k <= Len(UNetStmts(proc.args))) =>
          LET st == UNetStmts(proc.args)[proc.k]
          IN  \A i \in DOMAIN st.reads : Bound(gu, st.reads[i])

C6_Witness ==
    /\ proc.pc = "get_UNet" /\ proc.k <= Len(UNetStmts(proc.args))
    /\ UNetStmts(proc.args)[proc.k].target = "concat3"
    /\ {"deconv3", "contr_2_2"} \subseteq Keys(gu)

SkipOf(k) == << "contr_4_2", "contr_3_2", "contr_2_2", "contr_1_2" >>[k]

DeconvOf(k) == << "deconv1", "deconv2", "deconv3", "deconv4" >>[k]

ConcatOf(k) == << "concat1", "concat2", "concat3", "concat4" >>[k]

\* C10: for a height and width that are multiples of 16, at every built
\* concat_k the upsampled tensor and the skip tensor agree in height and in
\* width (the center crop removes nothing) and the result has
\* base*2^(5-k) + base*2^(4-k) channels.
C10_SkipShapesAgree ==
    (proc.args.input_dim[1] % 16 = 0 /\ proc.args.input_dim[2] % 16 = 0) =>
        \A k \in 1..4 :
            ConcatOf(k) \in Keys(gu) =>
                LET up == ShapeOf(gu, DeconvOf(k))
                    skip == ShapeOf(gu, SkipOf(k))
                    cat == ShapeOf(gu, ConcatOf(k))
                IN  /\ up[3] = skip[3] /\ up[4] = skip[4]
                    /\ cat[3] = skip[3] /\ cat[4] = skip[4]
                    /\ cat[2] = proc.args.base_n_filters * Pow2(5 - k)
                                + proc.args.base_n_filters * Pow2(4 - k)

C10_Witness ==
    /\ proc.entry = "get_UNet" /\ proc.args.input_dim = << 16, 32 >>
    /\ "concat4" \in Keys(gu)
    /\ ShapeOf(gu, "deconv4") = << proc.args.BATCH_SIZE, 2 * proc.args.base_n_filters, 16, 32 >>

\* ------------------------------------------- the whole of create_network
\* create_network on configuration HP, with the random source in state r and
\* the archive f at the configured path: the exception it ends with ("" for
\* none), the state it leaves the random source in, the layers, and what it
\* assigns on the instance.
create_network(HP, r, f) ==
    LET r1 == set_rng(r)
        dim == InputDim(HP)
        b == get_UNet(CallArgs(HP, NrOfGradients(HP), dim), r1)
        out == Lookup(b.gu, "output_flat")
        w == IF HP.LOAD_WEIGHTS THEN set_all_param_values(b.gu.layers, out, f)
             ELSE [ layers |-> b.gu.layers, exc |-> "" ]
    IN  IF dim = Unbound
        THEN [ exc |-> "UnboundLocalError", rng |-> r1, layers |-> << >>, self |-> NoSelf ]
        ELSE IF b.gu.exc # ""
        THEN [ exc |-> b.gu.exc, rng |-> b.rng, layers |-> b.gu.layers, self |-> NoSelf ]
        ELSE IF w.exc # ""
        THEN [ exc |-> w.exc, rng |-> b.rng, layers |-> w.layers, self |-> NoSelf ]
        ELSE [ exc |-> "", rng |-> b.rng, layers |-> w.layers,
               self |-> [ assigned |-> Exported, learning_rate |-> HP.LEARNING_RATE, output |-> out ] ]

\* The seed of the mask stream of the DropoutLayer.
DropoutSeed(layers) == layers[CHOOSE k \in DOMAIN layers : layers[k].kind = "dropout"].srng

\* ------------------------------------------------ the symbolic Theano graph
\* A symbolic expression: an operator, its operands and its attributes.
Expr(op, args, attr) == [ op |-> op, args |-> args, attr |-> attr ]

\* Lines 122-124.
X_sym == Expr("tensor4", << >>, << "X_sym" >>)

y_sym == Expr("itensor4", << >>, << "y_sym" >>)

\* L.layers.get_output(layer, X_sym, deterministic=...).
GetOutput(layer, x, deterministic) ==
    Expr("get_output", << x >>, << layer, IF deterministic THEN "deterministic=True" ELSE "deterministic=False" >>)

Dimshuffle0312(e) == Expr("dimshuffle", << e >>, << "0", "3", "1", "2" >>)

Dice(e, y) ==
    Expr("theano_binary_dice_per_instance_and_class", << e, y >>, << "dim=2", "first_spatial_axis=2" >>)

DiceForLoss(e, y) ==
    Expr("theano_binary_dice_per_instance_and_class_for_loss", << e, y >>, << "dim=2", "first_spatial_axis=2" >>)

Mean(e) == Expr("T.mean", << e >>, << >>)

OneMinus(e) == Expr("sub", << Expr("const", << >>, << "1" >>), e >>, << >>)

\* Lines 126-129.
prediction_train == GetOutput("output_flat", X_sym, FALSE)

prediction_test == GetOutput("output_flat", X_sym, TRUE)

output_train == GetOutput("output", X_sym, FALSE)

output_test == GetOutput("output", X_sym, TRUE)

\* Lines 132-136.
output_shuff_train == Dimshuffle0312(output_train)

dice_scores_train == Dice(output_shuff_train, y_sym)

f1_train == Mean(dice_scores_train)

dice_scores_train_continuous == DiceForLoss(output_shuff_train, y_sym)

f1_train_continuous == Mean(dice_scores_train_continuous)

\* Lines 138-142.
output_shuff_test == Dimshuffle0312(output_test)

dice_scores_test == Dice(output_shuff_test, y_sym)

f1_test == Mean(dice_scores_test)

dice_scores_test_continuous == DiceForLoss(output_shuff_test, y_sym)

f1_test_continuous == Mean(dice_scores_test_continuous)

\* A mutant of loss_train: the loss is taken from the hard Dice scores.
loss_train_hard == OneMinus(f1_train)

\* Lines 144-145.
loss_train == OneMinus(f1_train_continuous)

loss_test == OneMinus(f1_test_continuous)

\* Line 151: L.updates.adamax(loss_train, all_params, learning_rate).
updates == << "adamax" >>

no_updates == << >>

\* theano.function(inputs, outputs, updates=...).
Function(name, inputs, outputs, upd) ==
    [ name |-> name, inputs |-> inputs, outputs |-> outputs, updates |-> upd ]

\* Line 154.
train_fn == Function("train", << X_sym, y_sym >>, << loss_train, prediction_train, f1_train >>, updates)

\* A mutant of predict_fn: compiled like train_fn, with the updates.
predict_fn_updating ==
    Function("predict", << X_sym, y_sym >>, << loss_test, prediction_test, f1_test >>, updates)

\* Line 155.
predict_fn == Function("predict", << X_sym, y_sym >>, << loss_test, prediction_test, f1_test >>, no_updates)

\* Line 157.
get_probs == Function("get_probs", << X_sym >>, << output_test >>, no_updates)

\* -------------------------------------------------- calling a compiled callable
RECURSIVE Leaves(_)
Leaves(e) == IF e.args = << >> THEN {e} ELSE UNION { Leaves(e.args[i]) : i \in DOMAIN e.args }

RECURSIVE Modes(_)
\* The deterministic= flags of the get_output nodes of an expression.
Modes(e) ==
    (IF e.op = "get_output" THEN { e.attr[2] } ELSE {})
    \cup UNION { Modes(e.args[i]) : i \in DOMAIN e.args }

\* The expression draws a dropout mask: it holds a get_output in training
\* mode (the DropoutLayer is below both output_flat and output).
Stochastic(e) == "deterministic=False" \in Modes(e)

\* The value of expression e in a call with inputs X, y on a model with the
\* parameters params and the mask stream in state srng: the expression with
\* all it depends on.  Two equal values are the same numbers.
Value(e, env) ==
    [ expr |-> e,
      X |-> IF X_sym \in Leaves(e) THEN env.X ELSE 0,
      y |-> IF y_sym \in Leaves(e) THEN env.y ELSE 0,
      params |-> env.params,
      srng |-> IF Stochastic(e) THEN env.srng ELSE 0 ]

Outputs(fn, env) == [i \in DOMAIN fn.outputs |-> Value(fn.outputs[i], env)]

\* The gradients of loss_train one call can produce for the parameters (the
\* same for all, an abstraction of their sign).
Grads == {-1, 0, 1}

Max2(a, b) == IF a >= b THEN a ELSE b

Abs(g) == IF g < 0 THEN 0 - g ELSE g

\* L.updates.adamax: t counts the steps, m follows the gradient, u is the
\* running maximum of its magnitude, every parameter moves by the learning
\* rate against m.
Adamax(m, lr, g) ==
    [ m EXCEPT !.opt = [ t |-> @.t + 1, m |-> g, u |-> Max2(@.u, Abs(g)) ],
               !.params = [k \in DOMAIN @ |-> @[k] - lr * g] ]

\* The bindings of one call.
Env(m, X, y) == [ X |-> X, y |-> y, params |-> m.params, srng |-> m.srng ]

\* What calling fn can do to the model: the updates of the function, for each
\* gradient the call can compute, and the step of the mask stream when its
\* graph draws a mask.
AfterCall(fn, m) ==
    LET drawn == IF \E i \in DOMAIN fn.outputs : Stochastic(fn.outputs[i])
                 THEN [m EXCEPT !.srng = RngNext(@)] ELSE m
    IN  IF fn.updates # no_updates
        THEN { Adamax(drawn, m.learning_rate, g) : g \in Grads }
        ELSE { drawn }

\* What the call returns and leaves in last.
Called(fn, m, X, y) == [ fn |-> fn.name, env |-> Env(m, X, y), out |-> Outputs(fn, Env(m, X, y)) ]

\* The model create_network leaves on the instance.
BuiltModel(HP, c) ==
    [ HP |-> HP, params |-> get_all_param_values(c.layers, c.self.output),
      srng |-> DropoutSeed(c.layers), learning_rate |-> c.self.learning_rate,
      opt |-> [ t |-> 0, m |-> 0, u |-> 0 ] ]

NoCall == [ fn |-> "", env |-> << >>, out |-> << >> ]

\* The archive a run of this network saved: 19 convolutions, W and b of each.
GoodArchive == [ n |-> 2 * 19, bad |-> 0 ]

CallHPs ==
    { [ SEG_INPUT |-> "Peaks", TYPE |-> "single_direction", RESOLUTION |-> "2mm", NR_OF_CLASSES |-> c,
        UNET_NR_FILT |-> 1, USE_DROPOUT |-> d, LOAD_WEIGHTS |-> w, LEARNING_RATE |-> 1 ] :
      c \in {1}, d \in BOOLEAN, w \in BOOLEAN }

\* The values the training driver gives the learning rate.
LearningRates == {1, 2}

IdleBuild == proc = << >> /\ gu = NewUNet /\ self = NoSelf

\* A process that has built one model and calls it.
InitCalls ==
    /\ \E h \in CallHPs :
          LET c == create_network(h, 0, GoodArchive)
          IN  /\ model = BuiltModel(h, c)
              /\ rng = c.rng
    /\ last = NoCall
    /\ inst = << >>
    /\ head = << >>
    /\ IdleBuild

\* self.train(X, y)
Train ==
    /\ model.opt.t < MaxTrainSteps
    /\ \E X \in 1..MaxInputs, y \in 1..MaxInputs :
          /\ last' = Called(train_fn, model, X, y)
          /\ model' \in AfterCall(train_fn, model)
    /\ UNCHANGED << proc, gu, rng, self, inst, head >>

\* self.predict(X, y)
Predict ==
    /\ \E X \in 1..MaxInputs, y \in 1..MaxInputs :
          /\ last' = Called(predict_fn, model, X, y)
          /\ model' \in AfterCall(predict_fn, model)
    /\ UNCHANGED << proc, gu, rng, self, inst, head >>

\* self.get_probs(X)
GetProbs ==
    /\ \E X \in 1..MaxInputs :
          /\ last' = Called(get_probs, model, X, 0)
          /\ model' \in AfterCall(get_probs, model)
    /\ UNCHANGED << proc, gu, rng, self, inst, head >>

\* self.learning_rate.set_value(v), by the training driver.
SetLearningRate ==
    /\ \E v \in LearningRates : model' = [model EXCEPT !.learning_rate = v]
    /\ UNCHANGED << proc, gu, rng, self, last, inst, head >>

NextCalls ==
    \/ Train
    \/ Predict
    \/ GetProbs
    \/ SetLearningRate

SpecCalls == InitCalls /\ [][NextCalls]_vars

\* ----------------------------------------------------- claims on the calls
ModelChanged == model'.params # model.params \/ model'.opt # model.opt

\* The mode of the last call: predict and get_probs evaluate every layer
\* output with deterministic=True and draw no mask, train with
\* deterministic=False.
ModeOfLastCall ==
    /\ last.fn \in {"predict", "get_probs"} =>
          \A i \in DOMAIN last.out :
              /\ Modes(last.out[i].expr) = {"deterministic=True"}
              /\ last.out[i].srng = 0
    /\ last.fn = "train" =>
          /\ Modes(last.out[1].expr) = {"deterministic=False"}
          /\ Modes(last.out[2].expr) = {"deterministic=False"}
          /\ Modes(last.out[3].expr) = {"deterministic=False"}

\* C4: a step changes the parameters or the optimizer state only if it is a
\* call of train, and the mask stream only then; predict and get_probs are
\* evaluated in deterministic mode, train with dropout active.
C4_OnlyTrainUpdates ==
    [][ /\ (ModelChanged \/ model'.srng # model.srng) => (last'.fn = "train" /\ model'.opt.t = model.opt.t + 1)
        /\ ModeOfLastCall' ]_vars

C4_Witness ==
    /\ last.fn = "predict"
    /\ model.opt.t = MaxTrainSteps
    /\ model.learning_rate = 2
    /\ last.env.params = model.params

SoftLoss(deterministic) ==
    OneMinus(Mean(DiceForLoss(Dimshuffle0312(GetOutput("output", X_sym, deterministic)), y_sym)))

HardMean(deterministic) ==
    Mean(Dice(Dimshuffle0312(GetOutput("output", X_sym, deterministic)), y_sym))

\* C8: the first value train returns is 1 - mean(soft Dice) over the
\* training-mode output on the call's inputs and the parameters before the
\* update; predict returns the same formula over the deterministic output;
\* the third value of each is the mean of the hard Dice scores.
C8_LossIsOneMinusSoftDice ==
    /\ last.fn = "train" =>
          /\ last.out[1] = Value(SoftLoss(FALSE), last.env)
          /\ last.out[3] = Value(HardMean(FALSE), last.env)
    /\ last.fn = "predict" =>
          /\ last.out[1] = Value(SoftLoss(TRUE), last.env)
          /\ last.out[3] = Value(HardMean(TRUE), last.env)

C8_Witness ==
    /\ last.fn = "train"
    /\ last.out[1].expr = SoftLoss(FALSE)
    /\ last.out[1].y = MaxInputs
    /\ model.params # last.env.params

\* ------------------------------------------- several models in one process
\* The two model instances the process constructs.
Instances == {1, 2}

ReproHPs ==
    { [ SEG_INPUT |-> "other", TYPE |-> "combined", RESOLUTION |-> t, NR_OF_CLASSES |-> c,
        UNET_NR_FILT |-> 1, USE_DROPOUT |-> FALSE, LOAD_WEIGHTS |-> w, LEARNING_RATE |-> 1 ] :
      t \in {"1.25mm", "2.5mm", "1mm"}, c \in {1}, w \in BOOLEAN }

NoModel ==
    [ HP |-> NoHP, params |-> << >>, srng |-> 0, learning_rate |-> 0, opt |-> [ t |-> 0, m |-> 0, u |-> 0 ] ]

NewInst == [ state |-> "new", model |-> NoModel, initial |-> << >> ]

\* The instance after its create_network ended as c: the model it holds, and
\* the parameter values it started with.
CreatedInst(HP, c) ==
    IF c.exc # ""
    THEN [ state |-> "failed", model |-> NoModel, initial |-> << >> ]
    ELSE [ state |-> "built", model |-> BuiltModel(HP, c), initial |-> BuiltModel(HP, c).params ]

InitRepro ==
    /\ rng \in 0..(RngMod - 1)
    /\ inst = [i \in Instances |-> NewInst]
    /\ model = << >>
    /\ last = NoCall
    /\ head = << >>
    /\ IdleBuild

\* The constructor of model instance i runs create_network; the instances are
\* numbered in the order they are constructed.
CreateNetwork ==
    /\ \E i \in Instances, h \in ReproHPs :
          /\ inst[i].state = "new"
          /\ \A j \in 1..(i - 1) : inst[j].state # "new"
          /\ LET c == create_network(h, rng, GoodArchive)
             IN  /\ inst' = [inst EXCEPT ![i] = CreatedInst(h, c)]
                 /\ rng' = c.rng
    /\ UNCHANGED << proc, gu, self, model, last, head >>

\* A training step on instance i.
TrainInstance ==
    /\ \E i \in Instances :
          /\ inst[i].state = "built"
          /\ inst[i].model.opt.t < MaxReproSteps
          /\ \E m \in AfterCall(train_fn, inst[i].model) : inst' = [inst EXCEPT ![i].model = m]
    /\ UNCHANGED << proc, gu, rng, self, model, last, head >>

\* Any other code of the process draws from lasagne.random.
ConsumeRandom ==
    /\ rng' = RngNext(rng)
    /\ UNCHANGED << proc, gu, self, model, last, inst, head >>

NextRepro ==
    \/ CreateNetwork
    \/ TrainInstance
    \/ ConsumeRandom

SpecRepro == InitRepro /\ [][NextRepro]_vars

Untrained(i) == inst[i].state = "built" /\ inst[i].model.opt.t = 0

\* C7: two built instances with the same configuration started with the same
\* parameter values, and as long as neither is trained every compiled callable
\* returns the same values on the same inputs (train included: the seed of the
\* mask stream is the same).
C7_SameConfigSameModel ==
    \A i, j \in Instances :
        (inst[i].state = "built" /\ inst[j].state = "built" /\ inst[i].model.HP = inst[j].model.HP) =>
            /\ inst[i].initial = inst[j].initial
            /\ (Untrained(i) /\ Untrained(j)) =>
                  \A X \in 1..MaxInputs, y \in 1..MaxInputs :
                      /\ Called(get_probs, inst[i].model, X, 0).out = Called(get_probs, inst[j].model, X, 0).out
                      /\ Called(predict_fn, inst[i].model, X, y).out = Called(predict_fn, inst[j].model, X, y).out
                      /\ Called(train_fn, inst[i].model, X, y).out = Called(train_fn, inst[j].model, X, y).out

C7_Witness ==
    /\ inst[1].state = "built" /\ inst[2].state = "built"
    /\ inst[1].model.HP = inst[2].model.HP
    /\ ~inst[1].model.HP.LOAD_WEIGHTS
    /\ inst[1].model.opt.t = MaxReproSteps
    /\ inst[1].model.params # inst[1].initial
    /\ Untrained(2)
    /\ inst[2].initial = inst[1].initial

\* ------------------------------------------------ the tensors of the output head
\* A tensor: its shape and its elements in row-major (C) order.
Tensor(shape, data) == [ shape |-> shape, data |-> data ]

Stride(shape, i) == Prod(SubSeq(shape, i + 1, Len(shape)))

\* The position (from 1) of the element at the 0-based index idx.
FlatIndex(idx, shape) ==
    LET RECURSIVE sum(_)
        sum(i) == IF i > Len(shape) THEN 0 ELSE idx[i] * Stride(shape, i) + sum(i + 1)
    IN  1 + sum(1)

\* The 0-based index of the element at position k.
MultiIndex(k, shape) == [i \in DOMAIN shape |-> ((k - 1) \div Stride(shape, i)) % shape[i]]

At(t, idx) == t.data[FlatIndex(idx, t.shape)]

\* A mutant of TDimshuffle: the axes are renamed and the elements left in place.
TDimshuffleInPlace(t, pattern) == Tensor(DimshuffleShape(t.shape, pattern), t.data)

\* x.dimshuffle(pattern): axis i of the result is axis pattern[i] of x.
TDimshuffle(t, pattern) ==
    LET shape == DimshuffleShape(t.shape, pattern)
        src(idx) == [j \in DOMAIN t.shape |-> idx[IndexOf(pattern, j - 1)]]
    IN  Tensor(shape, [k \in 1..Prod(shape) |-> At(t, src(MultiIndex(k, shape)))])

\* x.reshape(shape): the elements keep their row-major order.
TReshape(t, shape) == Tensor(ReshapeShape(t.shape, shape), t.data)

\* The sigmoid of a value, as the application itself.
Sigmoid(v) == << "sigmoid", v >>

TSigmoid(t) == Tensor(t.shape, [k \in DOMAIN t.data |-> Sigmoid(t.data[k])])

\* get_output of the layer the statement st builds, on the output t of the
\* layer it reads; img_shape is the local of line 82.
LayerOutput(st, t, img_shape) ==
    CASE st.kind = "dimshuffle" -> TDimshuffle(t, st.spec)
      [] st.kind = "reshape" -> TReshape(t, st.spec)
      [] st.kind = "reshape_img" -> TReshape(t, << -1, img_shape[3], img_shape[4], img_shape[2] >>)
      [] st.kind = "nonlinearity" -> TSigmoid(t)
      [] OTHER -> t

\* The output of conv_5 for a batch: every element is its own position, so
\* that no two are equal.
Conv5Outputs ==
    { Tensor(<< b, c, x, y >>, [k \in 1..(b * c * x * y) |-> k]) :
        b \in 1..MaxTDim, c \in 1..MaxTDim, x \in 1..MaxTDim, y \in 1..MaxTDim }

HeadStmts(t) == OutputHead([DefaultArgs EXCEPT !.num_output_classes = t.shape[2]])

InitHead ==
    /\ \E t \in Conv5Outputs :
          head = [ k |-> 2, conv_5 |-> t, cur |-> t, img_shape |-> << >>, at |-> "conv_5" ]
    /\ model = << >>
    /\ last = NoCall
    /\ inst = << >>
    /\ rng = 0
    /\ IdleBuild

\* Lines 76-81 and 83: the output of the next layer of the head.
HeadLayer ==
    /\ head.k <= Len(HeadStmts(head.conv_5))
    /\ HeadStmts(head.conv_5)[head.k].kind # "shape_of"
    /\ head' = [head EXCEPT !.k = @ + 1,
                            !.at = HeadStmts(head.conv_5)[head.k].target,
                            !.cur = LayerOutput(HeadStmts(head.conv_5)[head.k], head.cur, head.img_shape)]
    /\ UNCHANGED << proc, gu, rng, self, model, last, inst >>

\* Line 82.
HeadShape ==
    /\ head.k <= Len(HeadStmts(head.conv_5))
    /\ HeadStmts(head.conv_5)[head.k].kind = "shape_of"
    /\ head' = [head EXCEPT !.k = @ + 1, !.img_shape = head.conv_5.shape]
    /\ UNCHANGED << proc, gu, rng, self, model, last, inst >>

\* Lines 132 and 138: output.dimshuffle((0, 3, 1, 2)).
ShuffleForDice ==
    /\ head.at = "output"
    /\ head' = [head EXCEPT !.at = "output_shuff", !.cur = TDimshuffle(head.cur, << 0, 3, 1, 2 >>)]
    /\ UNCHANGED << proc, gu, rng, self, model, last, inst >>

NextHead ==
    \/ HeadLayer
    \/ HeadShape
    \/ ShuffleForDice

SpecHead == InitHead /\ [][NextHead]_vars

Indices(shape) == { MultiIndex(k, shape) : k \in 1..Prod(shape) }

\* C9: the element of output at [b, x, y, c] is the sigmoid of the element of
\* conv_5 at [b, c, x, y], output has the shape (batch, x, y, classes), and
\* after the permutation (0, 3, 1, 2) the element at [b, c, x, y] is the
\* sigmoid of the element of conv_5 at the same index.
C9_HeadPreservesElements ==
    /\ head.at = "output" =>
          /\ head.cur.shape = << head.conv_5.shape[1], head.conv_5.shape[3],
                                 head.conv_5.shape[4], head.conv_5.shape[2] >>
          /\ \A i \in Indices(head.conv_5.shape) :
                At(head.cur, << i[1], i[3], i[4], i[2] >>) = Sigmoid(At(head.conv_5, i))
    /\ head.at = "output_shuff" =>
          /\ head.cur.shape = head.conv_5.shape
          /\ \A i \in Indices(head.conv_5.shape) :
                At(head.cur, i) = Sigmoid(At(head.conv_5, i))

C9_Witness ==
    /\ head.at = "output_shuff"
    /\ head.conv_5.shape = << MaxTDim, MaxTDim, 1, MaxTDim >>
    /\ At(head.cur, << 1, 0, 0, 1 >>) = Sigmoid(At(head.conv_5, << 1, 0, 0, 1 >>))

====
